---- MODULE Spec2Model ----
(***************************************************************************)
(* Model of the machined broker of ciel-rs (src/machine.rs):               *)
(* spawn_container / wait_for_container / setup_bind_mounts,               *)
(* terminate_container_by_name / terminate_container / wait_for_poweroff / *)
(* kill_container, inspect_instance / is_booted, mount_layers, and         *)
(* get_container_ns_name / new_container_name / legacy_container_name.     *)
(*                                                                         *)
(* The program is single-threaded and blocking: one operation runs at a    *)
(* time (op, pc).  The host (nspawn child, container bus, machine daemon,  *)
(* mount table) changes state through separate environment actions.        *)
(***************************************************************************)
EXTENDS Integers, Sequences, FiniteSets, TLC

VARIABLES
    op,             \* operation in progress: "idle", "start", "stop", "inspect",
                    \* "mount", "name"
    pc,             \* position inside the operation
    result,         \* Result returned by the operation ("none" while running)
    \* ---- host state
    machine,        \* machine object on the daemon: "present" / "absent"
    mounted,        \* mount table: overlay mounted at the instance path
    child,          \* nspawn child process: "none", "running", "exited"
    busReady,       \* the container's init serves its private system bus
    \* ---- spawn_container
    mounts,         \* argument `mounts`, one kind per requested bind mount
    childOps,       \* operations the program invoked on the Child handle
    i,              \* loop index of wait_for_container
    probes,         \* calls of try_open_container_bus
    probeOks,       \* calls of try_open_container_bus that returned Ok
    aliveAt,        \* last attempt whose try_wait returned None (-1: never)
    readyAt,        \* attempt whose bus probe succeeded (-1: never)
    delays,         \* the sleeps of wait_for_container, in seconds
    slept,          \* total seconds slept by wait_for_container
    waitResult,     \* what wait_for_container returned
    setupErr,       \* step at which setup_bind_mounts failed ("none": Ok)
    j,              \* loop index of setup_bind_mounts
    bindCalls,      \* calls of bind_mount_machine
    installed,      \* indices of the mounts installed in the container
    warned,         \* warn!("Failed to setup bind mounts") was emitted
    \* ---- terminate_container_by_name
    phase,          \* "none", "graceful", "forced": which wait_for_poweroff
    existed,        \* the initial get_machine returned an object path
    poweroffAccepted, \* "none", "yes", "no": result of execute_poweroff
    gpolls,         \* get_machine polls of the graceful wait
    fpolls,         \* get_machine polls of the forced wait
    stopSlept,      \* one-second sleeps of wait_for_poweroff
    killCalls,      \* proxy.kill("all", SIGKILL) calls
    killSent,       \* a kill call succeeded
    terminateCalls, \* proxy.terminate() calls
    goneSeen,       \* a poll was answered NoSuchMachine
    goneAfterKill,  \* the machine vanished after KILL, before the forced polls ran out
    busFault,       \* a bus call failed for a reason other than absence of the machine
    \* ---- inspect_instance
    mountedRead,    \* what is_mounted returned (<<>> before the call)
    getRes,         \* what get_machine returned to inspect_instance
    stateRead,      \* what proxy.state() returned
    cmdlineRead,    \* the read of /proc/<leader>/cmdline (<<>> before the read)
    status,         \* the CielInstance returned (<<>>: no record)
    \* ---- the nspawn child's exit
    exitStatus,     \* ExitStatus of the child (<<>> while it has not exited)
    reportedStatus, \* the status carried by the "nspawn exited too early" error
    \* ---- mount_layers
    composed,       \* the overlay was mounted by an earlier mount_layers call
    mountedAtCall,  \* the mount table when mount_layers was called (<<>>: not called)
    isMountedRead,  \* what manager.is_mounted returned (<<>> before the call)
    mkdirCalls,     \* calls of fs::create_dir_all
    mountCalls,     \* calls of manager.mount
    \* ---- get_container_ns_name
    legacy,         \* layout flag passed by the caller
    nsCalls         \* the calls made so far: [cwd, path, statOk, res]

ctlV   == <<op, pc, result>>
envV   == <<machine, mounted, child, busReady>>
startV == <<mounts, childOps, i, probes, probeOks, aliveAt, readyAt, delays,
            slept, waitResult, setupErr, j, bindCalls, installed, warned>>
stopV  == <<phase, existed, poweroffAccepted, gpolls, fpolls, stopSlept,
            killCalls, killSent, terminateCalls, goneSeen, goneAfterKill, busFault>>
inspV  == <<mountedRead, getRes, stateRead, cmdlineRead, status>>
childV == <<exitStatus, reportedStatus>>
mountV == <<composed, mountedAtCall, isMountedRead, mkdirCalls, mountCalls>>
nameV  == <<legacy, nsCalls>>
vars   == <<ctlV, envV, startV, stopV, inspV, childV, mountV, nameV>>

(***************************************************************************)
(* Bounds and program constants                                            *)
(***************************************************************************)
MaxMounts == 2

\* wait_for_container(&mut child, ns_name, 10)
Retry == 10

\* for _ in 0..10 in wait_for_poweroff
PowerOffPolls == 10

\* What Child::try_wait can report for an exited systemd-nspawn.
ExitStatuses == {"exit status: 0", "exit status: 1", "signal: 9 (SIGKILL)"}

\* What can go wrong with one requested bind mount: nothing, create_dir_all,
\* canonicalize, or the BindMountMachine call.
MountKinds == {"ok", "mkdir", "canon", "bind"}

MountLists == UNION {[1..n -> MountKinds] : n \in 0..MaxMounts}

(***************************************************************************)
(* ((i + 1) as f32).ln().ceil()                                            *)
(* e^k in thousandths, truncated; ceil(ln n) is the least k with n <= e^k. *)
(***************************************************************************)
ExpMilli[k \in 0..5] ==
    IF k = 0 THEN 1000 ELSE (ExpMilli[k - 1] * 2718) \div 1000

CeilLn(n) ==
    CHOOSE k \in 0..5 : /\ n * 1000 <= ExpMilli[k]
                        /\ \A m \in 0..(k - 1) : n * 1000 > ExpMilli[m]

\* floor instead of ceil
SleepSecs_Floor(idx) ==
    CHOOSE k \in 0..5 : /\ ExpMilli[k] <= (idx + 1) * 1000
                        /\ \A m \in (k + 1)..5 : ExpMilli[m] > (idx + 1) * 1000

SleepSecs(idx) == CeilLn(idx + 1)

(***************************************************************************)
(* Initial state: no operation in progress; the host is in any state.      *)
(***************************************************************************)
StartLocalsInit ==
    /\ mounts = <<>>
    /\ childOps = {}
    /\ i = 0
    /\ probes = 0
    /\ probeOks = 0
    /\ aliveAt = -1
    /\ readyAt = -1
    /\ delays = <<>>
    /\ slept = 0
    /\ waitResult = "none"
    /\ setupErr = "none"
    /\ j = 1
    /\ bindCalls = 0
    /\ installed = {}
    /\ warned = FALSE

StopLocalsInit ==
    /\ phase = "none"
    /\ existed = FALSE
    /\ poweroffAccepted = "none"
    /\ gpolls = 0
    /\ fpolls = 0
    /\ stopSlept = 0
    /\ killCalls = 0
    /\ killSent = FALSE
    /\ terminateCalls = 0
    /\ goneSeen = FALSE
    /\ goneAfterKill = FALSE
    /\ busFault = FALSE

InspLocalsInit ==
    /\ mountedRead = <<>>
    /\ getRes = "none"
    /\ stateRead = "none"
    /\ cmdlineRead = <<>>
    /\ status = <<>>

MountLocalsInit ==
    /\ mountedAtCall = <<>>
    /\ isMountedRead = <<>>
    /\ mkdirCalls = 0
    /\ mountCalls = 0

NameLocalsInit ==
    /\ legacy = FALSE
    /\ nsCalls = <<>>

Init ==
    /\ op = "idle"
    /\ pc = "idle"
    /\ result = "none"
    /\ machine \in {"present", "absent"}
    /\ mounted \in BOOLEAN
    /\ child = "none"
    /\ busReady = FALSE
    /\ StartLocalsInit
    /\ StopLocalsInit
    /\ InspLocalsInit
    /\ exitStatus = <<>>
    /\ reportedStatus = <<>>
    /\ composed = FALSE
    /\ MountLocalsInit
    /\ NameLocalsInit

\* The operation returns `r` to its caller.
Finish(r) ==
    /\ pc' = "done"
    /\ result' = r
    /\ op' = op

(***************************************************************************)
(* spawn_container                                                         *)
(***************************************************************************)
\* Entry of spawn_container: path.to_str() fails on invalid Unicode.
StartCall ==
    /\ op = "idle"
    /\ \E m \in MountLists, validPath \in BOOLEAN :
        /\ mounts' = m
        /\ op' = "start"
        /\ IF validPath
             THEN pc' = "spawn" /\ result' = "none"
             ELSE pc' = "done" /\ result' = "InvalidUnicode"
    /\ UNCHANGED <<envV, stopV, inspV>>
    /\ UNCHANGED <<childOps, i, probes, probeOks, aliveAt, readyAt, delays,
                   slept, waitResult, setupErr, j, bindCalls, installed, warned>>
    /\ UNCHANGED <<childV, mountV, nameV>>

\* Command::new("systemd-nspawn")...spawn()?
Spawn ==
    /\ op = "start" /\ pc = "spawn"
    /\ \/ /\ child' = "running"
          /\ childOps' = childOps \cup {"spawn"}
          /\ pc' = "poll"
          /\ UNCHANGED <<op, result>>
       \/ /\ Finish("SpawnFailed")
          /\ UNCHANGED <<child, childOps>>
    /\ UNCHANGED <<machine, mounted, busReady, stopV, inspV>>
    /\ UNCHANGED <<mounts, i, probes, probeOks, aliveAt, readyAt, delays,
                   slept, waitResult, setupErr, j, bindCalls, installed, warned>>
    /\ UNCHANGED <<childV, mountV, nameV>>

\* the exit status of the child is not looked at
PollChild_IgnoreExit ==
    /\ op = "start" /\ pc = "poll" /\ i < Retry
    /\ childOps' = childOps \cup {"try_wait"}
    /\ \/ /\ child = "running"
          /\ aliveAt' = i
          /\ pc' = "probe"
          /\ UNCHANGED <<op, result, waitResult>>
       \/ /\ child = "exited"
          /\ waitResult' = "NspawnExitedEarly"
          /\ pc' = "setup_connect"
          /\ UNCHANGED <<op, result, aliveAt>>
       \/ /\ waitResult' = "IoError"
          /\ Finish("IoError")
          /\ UNCHANGED aliveAt
    /\ UNCHANGED <<envV, stopV, inspV>>
    /\ UNCHANGED <<mounts, i, probes, probeOks, readyAt, delays,
                   slept, setupErr, j, bindCalls, installed, warned>>
    /\ reportedStatus' = (IF child = "exited" /\ waitResult' = "NspawnExitedEarly"
                          THEN exitStatus ELSE reportedStatus)
    /\ UNCHANGED <<exitStatus, mountV, nameV>>

\* an exited child is only reported when the bus does not answer
PollChild_ExitedButProbed ==
    /\ op = "start" /\ pc = "poll" /\ i < Retry
    /\ childOps' = childOps \cup {"try_wait"}
    /\ \/ /\ child = "running" \/ (child = "exited" /\ busReady)
          /\ aliveAt' = IF child = "running" THEN i ELSE aliveAt
          /\ pc' = "probe"
          /\ UNCHANGED <<op, result, waitResult>>
       \/ /\ child = "exited" /\ ~busReady
          /\ waitResult' = "NspawnExitedEarly"
          /\ Finish("NspawnExitedEarly")
          /\ UNCHANGED aliveAt
       \/ /\ waitResult' = "IoError"
          /\ Finish("IoError")
          /\ UNCHANGED aliveAt
    /\ UNCHANGED <<envV, stopV, inspV>>
    /\ UNCHANGED <<mounts, i, probes, probeOks, readyAt, delays,
                   slept, setupErr, j, bindCalls, installed, warned>>
    /\ reportedStatus' = (IF child = "exited" /\ waitResult' = "NspawnExitedEarly"
                          THEN exitStatus ELSE reportedStatus)
    /\ UNCHANGED <<exitStatus, mountV, nameV>>

\* wait_for_container: child.try_wait()? and the test of its result.
PollChild ==
    /\ op = "start" /\ pc = "poll" /\ i < Retry
    /\ childOps' = childOps \cup {"try_wait"}
    /\ \/ /\ child = "running"
          /\ aliveAt' = i
          /\ pc' = "probe"
          /\ UNCHANGED <<op, result, waitResult>>
       \/ /\ child = "exited"
          /\ waitResult' = "NspawnExitedEarly"
          /\ Finish("NspawnExitedEarly")
          /\ UNCHANGED aliveAt
       \/ /\ waitResult' = "IoError"
          /\ Finish("IoError")
          /\ UNCHANGED aliveAt
    /\ UNCHANGED <<envV, stopV, inspV>>
    /\ UNCHANGED <<mounts, i, probes, probeOks, readyAt, delays,
                   slept, setupErr, j, bindCalls, installed, warned>>
    /\ reportedStatus' = (IF child = "exited" /\ waitResult' = "NspawnExitedEarly"
                          THEN exitStatus ELSE reportedStatus)
    /\ UNCHANGED <<exitStatus, mountV, nameV>>

\* wait_for_container: try_open_container_bus(ns_name).is_ok()
Probe ==
    /\ op = "start" /\ pc = "probe"
    /\ probes' = probes + 1
    /\ IF busReady
         THEN /\ probeOks' = probeOks + 1
              /\ readyAt' = i
              /\ waitResult' = "Ok"
              /\ pc' = "setup_connect"
         ELSE /\ pc' = "sleep"
              /\ UNCHANGED <<probeOks, readyAt, waitResult>>
    /\ UNCHANGED <<op, result, envV, stopV, inspV>>
    /\ UNCHANGED <<mounts, childOps, i, aliveAt, delays,
                   slept, setupErr, j, bindCalls, installed, warned>>
    /\ UNCHANGED <<childV, mountV, nameV>>

\* wait_for_container: sleep(...) and the next iteration.
Sleep ==
    /\ op = "start" /\ pc = "sleep"
    /\ delays' = Append(delays, SleepSecs(i))
    /\ slept' = slept + SleepSecs(i)
    /\ i' = i + 1
    /\ pc' = "poll"
    /\ UNCHANGED <<op, result, envV, stopV, inspV>>
    /\ UNCHANGED <<mounts, childOps, probes, probeOks, aliveAt, readyAt,
                   waitResult, setupErr, j, bindCalls, installed, warned>>
    /\ UNCHANGED <<childV, mountV, nameV>>

WaitExhausted_ReturnsOk ==
    /\ op = "start" /\ pc = "poll" /\ i >= Retry
    /\ waitResult' = "Ok"
    /\ pc' = "setup_connect"
    /\ UNCHANGED <<op, result, envV, stopV, inspV>>
    /\ UNCHANGED <<mounts, childOps, i, probes, probeOks, aliveAt, readyAt, delays,
                   slept, setupErr, j, bindCalls, installed, warned>>
    /\ UNCHANGED <<childV, mountV, nameV>>

\* wait_for_container: the loop ran out; `?` in spawn_container returns the
\* error and drops `child` (dropping a Child neither kills nor waits for it).
WaitExhausted ==
    /\ op = "start" /\ pc = "poll" /\ i >= Retry
    /\ waitResult' = "ReadinessTimeout"
    /\ Finish("ReadinessTimeout")
    /\ UNCHANGED <<envV, stopV, inspV>>
    /\ UNCHANGED <<mounts, childOps, i, probes, probeOks, aliveAt, readyAt, delays,
                   slept, setupErr, j, bindCalls, installed, warned>>
    /\ UNCHANGED <<childV, mountV, nameV>>

(***************************************************************************)
(* setup_bind_mounts                                                       *)
(***************************************************************************)
\* Connection::system()? ; ManagerProxyBlocking::new(&conn)?
SetupConnect ==
    /\ op = "start" /\ pc = "setup_connect"
    /\ \/ /\ pc' = "mount"
          /\ UNCHANGED setupErr
       \/ /\ setupErr' = "connect"
          /\ pc' = "setup_return"
    /\ UNCHANGED <<op, result, envV, stopV, inspV>>
    /\ UNCHANGED <<mounts, childOps, i, probes, probeOks, aliveAt, readyAt, delays,
                   slept, waitResult, j, bindCalls, installed, warned>>
    /\ UNCHANGED <<childV, mountV, nameV>>

\* Whether the body of the loop reaches proxy.bind_mount_machine(...) for a
\* mount of this kind: create_dir_all(..)? and canonicalize(..)? come first.
ReachesBindCall(kind) == kind \in {"ok", "bind"}

\* The error that the body of the loop returns with `?` ("none": no error).
MountError(kind) == IF kind = "ok" THEN "none" ELSE kind

\* One iteration of `for mount in mounts`, or the exit of the loop.
SetupMount ==
    /\ op = "start" /\ pc = "mount"
    /\ IF j > Len(mounts)
         THEN /\ pc' = "setup_return"
              /\ UNCHANGED <<setupErr, j, bindCalls, installed>>
         ELSE /\ bindCalls' = IF ReachesBindCall(mounts[j]) THEN bindCalls + 1 ELSE bindCalls
              /\ IF MountError(mounts[j]) = "none"
                   THEN /\ installed' = installed \cup {j}
                        /\ j' = j + 1
                        /\ pc' = "mount"
                        /\ UNCHANGED setupErr
                   ELSE /\ setupErr' = MountError(mounts[j])
                        /\ pc' = "setup_return"
                        /\ UNCHANGED <<installed, j>>
    /\ UNCHANGED <<op, result, envV, stopV, inspV>>
    /\ UNCHANGED <<mounts, childOps, i, probes, probeOks, aliveAt, readyAt, delays,
                   slept, waitResult, warned>>
    /\ UNCHANGED <<childV, mountV, nameV>>

\* the error of setup_bind_mounts is returned with `?`
SetupReturn_Propagates ==
    /\ op = "start" /\ pc = "setup_return"
    /\ warned' = FALSE
    /\ Finish(IF setupErr # "none" THEN "BindMountFailed" ELSE "Ok")
    /\ UNCHANGED <<envV, stopV, inspV>>
    /\ UNCHANGED <<mounts, childOps, i, probes, probeOks, aliveAt, readyAt, delays,
                   slept, waitResult, setupErr, j, bindCalls, installed>>
    /\ UNCHANGED <<childV, mountV, nameV>>

\* spawn_container: if let Err(e) = setup_bind_mounts(..) { warn!(..) }; Ok(())
SetupReturn ==
    /\ op = "start" /\ pc = "setup_return"
    /\ warned' = (setupErr # "none")
    /\ Finish("Ok")
    /\ UNCHANGED <<envV, stopV, inspV>>
    /\ UNCHANGED <<mounts, childOps, i, probes, probeOks, aliveAt, readyAt, delays,
                   slept, waitResult, setupErr, j, bindCalls, installed>>
    /\ UNCHANGED <<childV, mountV, nameV>>

(***************************************************************************)
(* The host while spawn_container runs                                     *)
(***************************************************************************)
\* The nspawn process exits.  The bus of the machine name may still answer:
\* the machine is torn down asynchronously by the daemon.
ChildExits ==
    /\ op = "start" /\ pc # "done"
    /\ child = "running"
    /\ child' = "exited"
    /\ \E st \in ExitStatuses : exitStatus' = <<st>>
    /\ busReady' \in {busReady, FALSE}
    /\ UNCHANGED <<ctlV, machine, mounted, startV, stopV, inspV>>
    /\ UNCHANGED <<reportedStatus, mountV, nameV>>

\* The init of the container starts to accept bus connections.
BusComesUp ==
    /\ op = "start" /\ pc # "done"
    /\ child = "running" /\ ~busReady
    /\ busReady' = TRUE
    /\ UNCHANGED <<ctlV, machine, mounted, child, startV, stopV, inspV>>
    /\ UNCHANGED <<childV, mountV, nameV>>

(***************************************************************************)
(* The machine daemon as seen through the bus proxies                      *)
(***************************************************************************)
\* ManagerProxyBlocking::get_machine(ns_name): an object path, the method
\* error org.freedesktop.machine1.NoSuchMachine, another method error, or an
\* error that is not a method error (timeout, broken connection).
GetMachineOutcomes(m) ==
    IF m = "present" THEN {"Ok", "AccessDenied", "BusError"}
                     ELSE {"NoSuchMachine", "AccessDenied", "BusError"}

\* A method call or a first property read on the Machine object.
MachineCallOutcomes(m) ==
    IF m = "present" THEN {"Ok", "BusError"}
                     ELSE {"UnknownObject", "BusError"}

\* The error is something else than the absence of the machine.
IsFault(r) == r \in {"AccessDenied", "BusError"}

(***************************************************************************)
(* terminate_container_by_name / terminate_container                       *)
(***************************************************************************)
StopCall ==
    /\ op = "idle"
    /\ op' = "stop"
    /\ pc' = "t_connect"
    /\ result' = "none"
    /\ UNCHANGED <<envV, startV, stopV, inspV>>
    /\ UNCHANGED <<childV, mountV, nameV>>

\* Connection::system()? ; ManagerProxyBlocking::new(&conn)?
TConnect ==
    /\ op = "stop" /\ pc = "t_connect"
    /\ \/ /\ pc' = "t_get"
          /\ UNCHANGED <<op, result, busFault>>
       \/ /\ Finish("BusError")
          /\ busFault' = TRUE
    /\ UNCHANGED <<envV, startV, inspV>>
    /\ UNCHANGED <<phase, existed, poweroffAccepted, gpolls, fpolls, stopSlept,
                   killCalls, killSent, terminateCalls, goneSeen, goneAfterKill>>
    /\ UNCHANGED <<childV, mountV, nameV>>

\* a machine that does not exist counts as stopped
TGetMachine_AbsentIsOk ==
    /\ op = "stop" /\ pc = "t_get"
    /\ \E r \in GetMachineOutcomes(machine) :
        IF r = "Ok"
          THEN /\ existed' = TRUE
               /\ pc' = "t_name"
               /\ UNCHANGED <<op, result, busFault>>
          ELSE /\ Finish(IF r = "NoSuchMachine" THEN "Ok" ELSE r)
               /\ busFault' = IsFault(r)
               /\ UNCHANGED existed
    /\ UNCHANGED <<envV, startV, inspV>>
    /\ UNCHANGED <<phase, poweroffAccepted, gpolls, fpolls, stopSlept,
                   killCalls, killSent, terminateCalls, goneSeen, goneAfterKill>>
    /\ UNCHANGED <<childV, mountV, nameV>>

\* proxy.get_machine(ns_name)? ; MachineProxyBlocking::builder(..).build()?
TGetMachine ==
    /\ op = "stop" /\ pc = "t_get"
    /\ \E r \in GetMachineOutcomes(machine) :
        IF r = "Ok"
          THEN /\ existed' = TRUE
               /\ pc' = "t_name"
               /\ UNCHANGED <<op, result, busFault>>
          ELSE /\ Finish(r)
               /\ busFault' = IsFault(r)
               /\ UNCHANGED existed
    /\ UNCHANGED <<envV, startV, inspV>>
    /\ UNCHANGED <<phase, poweroffAccepted, gpolls, fpolls, stopSlept,
                   killCalls, killSent, terminateCalls, goneSeen, goneAfterKill>>
    /\ UNCHANGED <<childV, mountV, nameV>>

\* terminate_container: let ns_name = proxy.name()?
TName ==
    /\ op = "stop" /\ pc = "t_name"
    /\ \E r \in MachineCallOutcomes(machine) :
        IF r = "Ok"
          THEN /\ pc' = "poweroff"
               /\ UNCHANGED <<op, result, busFault>>
          ELSE /\ Finish(r)
               /\ busFault' = IsFault(r)
    /\ UNCHANGED <<envV, startV, inspV>>
    /\ UNCHANGED <<phase, existed, poweroffAccepted, gpolls, fpolls, stopSlept,
                   killCalls, killSent, terminateCalls, goneSeen, goneAfterKill>>
    /\ UNCHANGED <<childV, mountV, nameV>>

\* the kill follows the poweroff without waiting for it
Poweroff_SkipsWait ==
    /\ op = "stop" /\ pc = "poweroff"
    /\ \E accepted \in (IF machine = "present" THEN BOOLEAN ELSE {FALSE}) :
        /\ poweroffAccepted' = (IF accepted THEN "yes" ELSE "no")
        /\ pc' = "kill"
        /\ UNCHANGED phase
    /\ UNCHANGED <<op, result, envV, startV, inspV>>
    /\ UNCHANGED <<existed, gpolls, fpolls, stopSlept,
                   killCalls, killSent, terminateCalls, goneSeen, goneAfterKill, busFault>>
    /\ UNCHANGED <<childV, mountV, nameV>>

\* execute_poweroff(&ns_name).is_ok(): systemd-run -M ns_name ... poweroff
\* is spawned and exits with 0; it cannot enter a machine that is gone.
Poweroff ==
    /\ op = "stop" /\ pc = "poweroff"
    /\ \E accepted \in (IF machine = "present" THEN BOOLEAN ELSE {FALSE}) :
        IF accepted
          THEN /\ poweroffAccepted' = "yes"
               /\ phase' = "graceful"
               /\ pc' = "w_open"
          ELSE /\ poweroffAccepted' = "no"
               /\ pc' = "kill"
               /\ UNCHANGED phase
    /\ UNCHANGED <<op, result, envV, startV, inspV>>
    /\ UNCHANGED <<existed, gpolls, fpolls, stopSlept,
                   killCalls, killSent, terminateCalls, goneSeen, goneAfterKill, busFault>>
    /\ UNCHANGED <<childV, mountV, nameV>>

\* What terminate_container does when wait_for_poweroff returned Err: after
\* the poweroff it falls back to kill_container, after the kill it fails.
AfterWaitFailed ==
    IF phase = "graceful"
      THEN pc' = "kill" /\ UNCHANGED <<op, result>>
      ELSE Finish("TerminationFailed")

\* wait_for_poweroff: proxy.name()? ; ManagerProxyBlocking::new(conn)?
WaitOpen ==
    /\ op = "stop" /\ pc = "w_open"
    /\ \/ /\ pc' = "w_poll"
          /\ UNCHANGED <<op, result, busFault>>
       \/ /\ AfterWaitFailed
          /\ busFault' = TRUE
    /\ UNCHANGED <<envV, startV, inspV>>
    /\ UNCHANGED <<phase, existed, poweroffAccepted, gpolls, fpolls, stopSlept,
                   killCalls, killSent, terminateCalls, goneSeen, goneAfterKill>>
    /\ UNCHANGED <<childV, mountV, nameV>>

Polls == IF phase = "graceful" THEN gpolls ELSE fpolls

\* for _ in 0..=10
PollsExhausted_Inclusive(n) == n > PowerOffPolls

\* for _ in 0..10: the range is used up after n iterations
PollsExhausted(n) == n >= PowerOffPolls

\* if proxy.get_machine(&ns_name).is_err() { return Ok(()) }
PollSaysGone(r) == r # "Ok"

\* wait_for_poweroff: one iteration: get_machine, then return or sleep 1 s.
WaitPoll ==
    /\ op = "stop" /\ pc = "w_poll"
    /\ ~PollsExhausted(Polls)
    /\ gpolls' = IF phase = "graceful" THEN gpolls + 1 ELSE gpolls
    /\ fpolls' = IF phase = "forced" THEN fpolls + 1 ELSE fpolls
    /\ \E r \in GetMachineOutcomes(machine) :
        IF PollSaysGone(r)
          THEN /\ Finish("Ok")
               /\ goneSeen' = (goneSeen \/ r = "NoSuchMachine")
               /\ busFault' = (busFault \/ IsFault(r))
               /\ UNCHANGED stopSlept
          ELSE /\ stopSlept' = stopSlept + 1
               /\ busFault' = (busFault \/ IsFault(r))
               /\ UNCHANGED <<ctlV, goneSeen>>
    /\ UNCHANGED <<envV, startV, inspV>>
    /\ UNCHANGED <<phase, existed, poweroffAccepted,
                   killCalls, killSent, terminateCalls, goneAfterKill>>
    /\ UNCHANGED <<childV, mountV, nameV>>

\* wait_for_poweroff: the loop ran out: Err(anyhow!("shutdown failed"))
WaitGivesUp ==
    /\ op = "stop" /\ pc = "w_poll"
    /\ PollsExhausted(Polls)
    /\ AfterWaitFailed
    /\ UNCHANGED <<envV, startV, stopV, inspV>>
    /\ UNCHANGED <<childV, mountV, nameV>>

\* kill_container: proxy.kill("all", libc::SIGKILL)?
Kill ==
    /\ op = "stop" /\ pc = "kill"
    /\ killCalls' = killCalls + 1
    /\ \E r \in MachineCallOutcomes(machine) :
        IF r = "Ok"
          THEN /\ killSent' = TRUE
               /\ pc' = "terminate"
               /\ UNCHANGED <<op, result, busFault>>
          ELSE /\ Finish(r)
               /\ busFault' = (busFault \/ IsFault(r))
               /\ UNCHANGED killSent
    /\ UNCHANGED <<envV, startV, inspV>>
    /\ UNCHANGED <<phase, existed, poweroffAccepted, gpolls, fpolls, stopSlept,
                   terminateCalls, goneSeen, goneAfterKill>>
    /\ UNCHANGED <<childV, mountV, nameV>>

\* kill_container: proxy.terminate()? ; the `?` of kill_container(proxy)?
Terminate ==
    /\ op = "stop" /\ pc = "terminate"
    /\ terminateCalls' = terminateCalls + 1
    /\ \E r \in MachineCallOutcomes(machine) :
        IF r = "Ok"
          THEN /\ pc' = "terminate_again"
               /\ UNCHANGED <<op, result, busFault>>
          ELSE /\ Finish(r)
               /\ busFault' = (busFault \/ IsFault(r))
    /\ UNCHANGED <<envV, startV, inspV>>
    /\ UNCHANGED <<phase, existed, poweroffAccepted, gpolls, fpolls, stopSlept,
                   killCalls, killSent, goneSeen, goneAfterKill>>
    /\ UNCHANGED <<childV, mountV, nameV>>

\* terminate_container: proxy.terminate().ok(), then the second wait.
TerminateAgain ==
    /\ op = "stop" /\ pc = "terminate_again"
    /\ terminateCalls' = terminateCalls + 1
    /\ phase' = "forced"
    /\ pc' = "w_open"
    /\ UNCHANGED <<op, result, envV, startV, inspV>>
    /\ UNCHANGED <<existed, poweroffAccepted, gpolls, fpolls, stopSlept,
                   killCalls, killSent, goneSeen, goneAfterKill, busFault>>
    /\ UNCHANGED <<childV, mountV, nameV>>

(***************************************************************************)
(* The host while terminate_container or inspect_instance runs             *)
(***************************************************************************)
\* The container goes down and the daemon drops its machine object.
MachineVanishes ==
    /\ op \in {"stop", "inspect"} /\ pc # "done"
    /\ machine = "present"
    /\ machine' = "absent"
    /\ goneAfterKill' = (goneAfterKill \/ (op = "stop" /\ killSent /\ fpolls < PowerOffPolls))
    /\ UNCHANGED <<ctlV, mounted, child, busReady, startV, inspV>>
    /\ UNCHANGED <<phase, existed, poweroffAccepted, gpolls, fpolls, stopSlept,
                   killCalls, killSent, terminateCalls, goneSeen, busFault>>
    /\ UNCHANGED <<childV, mountV, nameV>>

(***************************************************************************)
(* is_booted                                                               *)
(***************************************************************************)
NUL == "NUL"

SYSTEMD == <<"s", "y", "s", "t", "e", "m", "d">>

INITNAME == <<"i", "n", "i", "t">>

\* Contents of /proc/<leader>/cmdline that the model reads; bytes are
\* one-character strings, NUL is the zero byte.
CmdLines ==
    { <<"/">> \o SYSTEMD \o <<NUL>>,
      <<"/", "l", "/">> \o SYSTEMD \o <<NUL, "-", "x", NUL>>,
      <<"/">> \o INITNAME \o <<NUL>>,
      INITNAME \o <<NUL>>,
      INITNAME \o <<"/", NUL>>,
      INITNAME \o <<"r", "d", NUL>>,
      SYSTEMD \o <<"-", "n", NUL>>,
      <<"/">> \o SYSTEMD \o <<"/", "s", "h", NUL>>,
      <<"/", "s", "h", NUL>>,
      <<"/", NUL>>,
      <<".", ".", NUL>>,
      <<".", "/">> \o SYSTEMD \o <<"/", ".", NUL>>,
      <<NUL>>,
      INITNAME,
      <<>> }

\* f.iter().position(|c| *c == 0u8): 0 when there is no zero byte.
NulPosition(f) ==
    IF \E k \in 1..Len(f) : f[k] = NUL
      THEN CHOOSE k \in 1..Len(f) : f[k] = NUL /\ \A m \in 1..(k - 1) : f[m] # NUL
      ELSE 0

RECURSIVE SplitSlash(_)
\* The pieces of a path between its '/' bytes.
SplitSlash(s) ==
    IF s = <<>> THEN << <<>> >>
    ELSE LET rest == SplitSlash(Tail(s))
         IN  IF Head(s) = "/"
               THEN << <<>> >> \o rest
               ELSE << <<Head(s)>> \o Head(rest) >> \o Tail(rest)

\* Path::file_name: the last component of the path when it is a normal
\* name; repeated and trailing separators and "." are skipped, and a path
\* that ends in ".." or has no component has no file name (<<>>).
FileName(path) ==
    LET cs == SelectSeq(SplitSlash(path), LAMBDA c : c # <<>> /\ c # <<".">>)
    IN  IF cs = <<>> \/ cs[Len(cs)] = <<".", ".">> THEN <<>> ELSE cs[Len(cs)]

\* the name only has to start with "systemd" or "init"
ExeNameIsInit_Prefix(exe_name) ==
    \/ Len(exe_name) >= Len(SYSTEMD) /\ SubSeq(exe_name, 1, Len(SYSTEMD)) = SYSTEMD
    \/ Len(exe_name) >= Len(INITNAME) /\ SubSeq(exe_name, 1, Len(INITNAME)) = INITNAME

\* exe_name == "systemd" || exe_name == "init"
ExeNameIsInit(exe_name) == exe_name = SYSTEMD \/ exe_name = INITNAME

\* The outcomes of std::fs::read of the cmdline file: its bytes, or an error.
CmdlineReads ==
    {[exists |-> TRUE, bytes |-> c] : c \in CmdLines}
        \cup {[exists |-> FALSE, bytes |-> <<>>]}

\* is_booted after proxy.leader()?: "IoError" when the file cannot be read,
\* "ParseError" when it holds no zero byte, otherwise Ok("true" / "false").
IsBooted(f) ==
    IF ~f.exists THEN "IoError"
    ELSE IF NulPosition(f.bytes) = 0 THEN "ParseError"
    ELSE LET exe_name == FileName(SubSeq(f.bytes, 1, NulPosition(f.bytes) - 1))
         IN  IF exe_name # <<>>
               THEN IF ExeNameIsInit(exe_name) THEN "true" ELSE "false"
               ELSE "false"

(***************************************************************************)
(* inspect_instance                                                        *)
(***************************************************************************)
MachineStates == {"running", "degraded", "opening", "closing"}

InspectCall ==
    /\ op = "idle"
    /\ op' = "inspect"
    /\ pc' = "i_mounted"
    /\ result' = "none"
    /\ UNCHANGED <<envV, startV, stopV, inspV>>
    /\ UNCHANGED <<childV, mountV, nameV>>

\* current_dir()?.join(name) ; is_mounted(&full_path, "overlay")?
IMounted ==
    /\ op = "inspect" /\ pc = "i_mounted"
    /\ \/ /\ mountedRead' = <<mounted>>
          /\ pc' = "i_connect"
          /\ UNCHANGED <<op, result>>
       \/ /\ Finish("IoError")
          /\ UNCHANGED mountedRead
    /\ UNCHANGED <<envV, startV, stopV>>
    /\ UNCHANGED <<getRes, stateRead, cmdlineRead, status>>
    /\ UNCHANGED <<childV, mountV, nameV>>

\* Connection::system()? ; ManagerProxyBlocking::new(&conn)?
IConnect ==
    /\ op = "inspect" /\ pc = "i_connect"
    /\ \/ /\ pc' = "i_get"
          /\ UNCHANGED <<op, result>>
       \/ Finish("BusError")
    /\ UNCHANGED <<envV, startV, stopV, inspV>>
    /\ UNCHANGED <<childV, mountV, nameV>>

\* any method error is taken for the absence of the machine
IsNoSuchMachine_AnyMethodError(r) == r \in {"NoSuchMachine", "AccessDenied"}

\* e is a MethodError named org.freedesktop.machine1.NoSuchMachine
IsNoSuchMachine(r) == r = "NoSuchMachine"

\* the running field is filled from the mount state
StoppedInstance_RunningFromMounted(m) ==
    [started |-> FALSE, running |-> m, mounted |-> m, booted |-> "None"]

\* The CielInstance built for a machine that does not exist.
StoppedInstance(m) ==
    [started |-> FALSE, running |-> FALSE, mounted |-> m, booted |-> "None"]

\* let path = proxy.get_machine(ns_name); if let Err(e) = path { ... }
IGetMachine ==
    /\ op = "inspect" /\ pc = "i_get"
    /\ \E r \in GetMachineOutcomes(machine) :
        /\ getRes' = r
        /\ IF r = "Ok"
             THEN /\ pc' = "i_state"
                  /\ UNCHANGED <<op, result, status>>
             ELSE IF IsNoSuchMachine(r)
                    THEN /\ status' = <<StoppedInstance(mountedRead[1])>>
                         /\ Finish("Ok")
                    ELSE /\ Finish(r)
                         /\ UNCHANGED status
    /\ UNCHANGED <<envV, startV, stopV>>
    /\ UNCHANGED <<mountedRead, stateRead, cmdlineRead>>
    /\ UNCHANGED <<childV, mountV, nameV>>

\* MachineProxyBlocking::builder(..).build()? ; proxy.state()?
IState ==
    /\ op = "inspect" /\ pc = "i_state"
    /\ \E r \in MachineCallOutcomes(machine) :
        IF r = "Ok"
          THEN /\ \E st \in MachineStates : stateRead' = st
               /\ pc' = "i_booted"
               /\ UNCHANGED <<op, result>>
          ELSE /\ Finish(r)
               /\ UNCHANGED stateRead
    /\ UNCHANGED <<envV, startV, stopV>>
    /\ UNCHANGED <<mountedRead, getRes, cmdlineRead, status>>
    /\ UNCHANGED <<childV, mountV, nameV>>

\* state == "running" || state == "degraded"
IsRunning(st) == st = "running" \/ st = "degraded"

\* The CielInstance built for a machine that exists.
StartedInstance(m, st, b) ==
    [started |-> TRUE, running |-> IsRunning(st), mounted |-> m,
     booted |-> IF b = "true" THEN "Some(true)" ELSE "Some(false)"]

\* is_booted(&proxy)? : proxy.leader()?, the read of the cmdline file and
\* its parsing; then the record is returned.
IBooted ==
    /\ op = "inspect" /\ pc = "i_booted"
    /\ \E r \in MachineCallOutcomes(machine) :
        IF r = "Ok"
          THEN \E f \in CmdlineReads :
                 /\ cmdlineRead' = <<f>>
                 /\ IF IsBooted(f) \in {"true", "false"}
                      THEN /\ status' = <<StartedInstance(mountedRead[1], stateRead, IsBooted(f))>>
                           /\ Finish("Ok")
                      ELSE /\ Finish(IsBooted(f))
                           /\ UNCHANGED status
          ELSE /\ Finish(r)
               /\ UNCHANGED <<cmdlineRead, status>>
    /\ UNCHANGED <<envV, startV, stopV>>
    /\ UNCHANGED <<mountedRead, getRes, stateRead>>
    /\ UNCHANGED <<childV, mountV, nameV>>

(***************************************************************************)
(* mount_layers                                                            *)
(***************************************************************************)
\* Entry of mount_layers: std::env::current_dir()?.join(name)
MountLayersCall ==
    /\ op = "idle"
    /\ op' = "mount"
    /\ mountedAtCall' = <<mounted>>
    /\ \/ pc' = "m_is_mounted" /\ result' = "none"
       \/ pc' = "done" /\ result' = "IoError"
    /\ UNCHANGED <<envV, startV, stopV, inspV, childV, nameV>>
    /\ UNCHANGED <<composed, isMountedRead, mkdirCalls, mountCalls>>

\* the mount table is not consulted
MLayersIsMounted_Skipped ==
    /\ op = "mount" /\ pc = "m_is_mounted"
    /\ \/ /\ isMountedRead' = <<mounted>>
          /\ pc' = "m_mkdir"
          /\ UNCHANGED <<op, result>>
       \/ /\ Finish("IoError")
          /\ UNCHANGED isMountedRead
    /\ UNCHANGED <<envV, startV, stopV, inspV, childV, nameV>>
    /\ UNCHANGED <<composed, mountedAtCall, mkdirCalls, mountCalls>>

\* if !manager.is_mounted(&target)? { ... }; Ok(())
MLayersIsMounted ==
    /\ op = "mount" /\ pc = "m_is_mounted"
    /\ \/ /\ isMountedRead' = <<mounted>>
          /\ IF mounted
               THEN Finish("Ok")
               ELSE pc' = "m_mkdir" /\ UNCHANGED <<op, result>>
       \/ /\ Finish("IoError")
          /\ UNCHANGED isMountedRead
    /\ UNCHANGED <<envV, startV, stopV, inspV, childV, nameV>>
    /\ UNCHANGED <<composed, mountedAtCall, mkdirCalls, mountCalls>>

\* fs::create_dir_all(&target)?
MLayersMkdir ==
    /\ op = "mount" /\ pc = "m_mkdir"
    /\ mkdirCalls' = mkdirCalls + 1
    /\ \/ pc' = "m_mount" /\ UNCHANGED <<op, result>>
       \/ Finish("IoError")
    /\ UNCHANGED <<envV, startV, stopV, inspV, childV, nameV>>
    /\ UNCHANGED <<composed, mountedAtCall, isMountedRead, mountCalls>>

\* manager.mount(&target)? ; Ok(())
MLayersMount ==
    /\ op = "mount" /\ pc = "m_mount"
    /\ mountCalls' = mountCalls + 1
    /\ \/ /\ mounted' = TRUE
          /\ composed' = TRUE
          /\ Finish("Ok")
       \/ /\ Finish("MountFailed")
          /\ UNCHANGED <<mounted, composed>>
    /\ UNCHANGED <<machine, child, busReady, startV, stopV, inspV, childV, nameV>>
    /\ UNCHANGED <<mountedAtCall, isMountedRead, mkdirCalls>>

(***************************************************************************)
(* get_container_ns_name / new_container_name / legacy_container_name      *)
(* Paths and names are sequences of one-character strings.                 *)
(***************************************************************************)
\* as_bytes(): the byte of each character that occurs in the paths below;
\* "<ff>" stands for a byte that is not valid UTF-8.
Byte(c) ==
    CASE c = "/" -> 47 [] c = "-" -> 45 [] c = "." -> 46 [] c = "1" -> 49
      [] c = "a" -> 97 [] c = "b" -> 98 [] c = "m" -> 109 [] c = "p" -> 112
      [] c = "t" -> 116 [] c = "w" -> 119 [] c = "<ff>" -> 255

RECURSIVE Adler32Loop(_, _, _)
\* adler32: a and b are the two running sums modulo 65521; the checksum is
\* (b << 16) | a.
Adler32Loop(bytes, a, b) ==
    IF bytes = <<>> THEN b * 65536 + a
    ELSE LET a2 == (a + Byte(Head(bytes))) % 65521
         IN  Adler32Loop(Tail(bytes), a2, (b + a2) % 65521)

\* the first sum starts at 0
Adler32_ZeroInit(bytes) == Adler32Loop(bytes, 0, 0)

Adler32(bytes) == Adler32Loop(bytes, 1, 0)

HexDigits ==
    <<"0", "1", "2", "3", "4", "5", "6", "7", "8", "9", "a", "b", "c", "d", "e", "f">>

RECURSIVE Hex(_)
\* {:x}: lowercase hexadecimal without leading zeros.
Hex(n) ==
    IF n < 16 THEN <<HexDigits[n + 1]>>
    ELSE Append(Hex(n \div 16), HexDigits[(n % 16) + 1])

\* format!("{}-{:x}", name, n)
FormatName(name, n) == name \o <<"-">> \o Hex(n)

\* OsStr::to_str succeeds on valid Unicode only.
IsValidUnicode(name) == \A k \in 1..Len(name) : name[k] # "<ff>"

IsAbsolute(p) == p # <<>> /\ p[1] = "/"

\* an absolute argument is appended like a relative one
Join_AlwaysAppends(base, p) ==
    IF base[Len(base)] = "/" THEN base \o p ELSE base \o <<"/">> \o p

\* current_dir.join(path): an absolute argument replaces the base.
Join(base, p) ==
    IF IsAbsolute(p) THEN p
    ELSE IF base[Len(base)] = "/" THEN base \o p
    ELSE base \o <<"/">> \o p

\* Result<String>
OkName(name) == [ok |-> TRUE, name |-> name, err |-> "none"]
ErrName(e)   == [ok |-> FALSE, name |-> <<>>, err |-> e]

TMP  == <<"/", "t", "m", "p">>
WDIR == <<"/", "w">>

\* The directories the process can be in.
Dirs == {TMP, WDIR}

\* std::env::current_dir(): the directory, or nothing when it cannot be read.
CwdStates == {<<>>} \cup {<<d>> : d \in Dirs}

\* The path arguments of get_container_ns_name.
PathArgs ==
    { <<"/", "t", "m", "p", "/">>,
      <<"t", "m", "p">>,
      <<"a">>,
      <<"a", "-", "1">>,
      <<"a", "-", "1", "b">>,
      <<".", ".">>,
      <<"a", "<ff>">> }

\* stat() of each directory: device and inode number.
DirStat(d) ==
    IF d = TMP THEN [dev |-> 38, ino |-> 1] ELSE [dev |-> 2049, ino |-> 131074]

\* ftok(path, proj_id): -1 when the path cannot be stat'ed, else the low 16
\* bits of the inode, the low 8 bits of the device and the low 8 bits of
\* proj_id.
Ftok(d, proj_id, statOk) ==
    IF ~statOk THEN -1
    ELSE (DirStat(d).ino % 65536) + (DirStat(d).dev % 256) * 65536
           + (proj_id % 256) * 16777216

\* the name is taken from `path` after it was rebound to the working directory
LegacyContainerName_NameFromCwd(cwd, path, statOk) ==
    IF cwd = <<>> THEN ErrName("IoError")
    ELSE LET name == FileName(cwd[1])
             key_id == Ftok(cwd[1], 0, statOk)
         IN  IF name = <<>> THEN ErrName("InvalidContainerPath")
             ELSE IF key_id < 0 THEN ErrName("FtokFailed")
             ELSE IF ~IsValidUnicode(name) THEN ErrName("NotValidUnicode")
             ELSE OkName(FormatName(name, key_id))

\* legacy_container_name(path); cwd is what std::env::current_dir() returns.
LegacyContainerName(cwd, path, statOk) ==
    IF cwd = <<>> THEN ErrName("IoError")
    ELSE LET name == FileName(path)
             key_id == Ftok(cwd[1], 0, statOk)
         IN  IF name = <<>> THEN ErrName("InvalidContainerPath")
             ELSE IF key_id < 0 THEN ErrName("FtokFailed")
             ELSE IF ~IsValidUnicode(name) THEN ErrName("NotValidUnicode")
             ELSE OkName(FormatName(name, key_id))

\* new_container_name(path)
NewContainerName(path) ==
    LET hash == Adler32(path)
        name == FileName(path)
    IN  IF name = <<>> THEN ErrName("InvalidContainerPath")
        ELSE IF ~IsValidUnicode(name) THEN ErrName("NotValidUnicode")
        ELSE OkName(FormatName(name, hash))

\* get_container_ns_name(path, legacy)
GetContainerNsName(cwd, p, lg, statOk) ==
    IF cwd = <<>> THEN ErrName("IoError")
    ELSE LET path == Join(cwd[1], p)
         IN  IF lg THEN LegacyContainerName(cwd, path, statOk)
             ELSE NewContainerName(path)

\* A caller in a workspace of either layout is about to name two instances.
NsNameCall ==
    /\ op = "idle"
    /\ op' = "name"
    /\ pc' = "n_first"
    /\ result' = "none"
    /\ legacy' \in BOOLEAN
    /\ UNCHANGED <<envV, startV, stopV, inspV, childV, mountV, nsCalls>>

\* One call of get_container_ns_name; the caller returns its error with `?`.
NsNameStep(next) ==
    \E cwd \in CwdStates, p \in PathArgs,
       statOk \in (IF legacy THEN BOOLEAN ELSE {TRUE}) :
        LET res == GetContainerNsName(cwd, p, legacy, statOk)
        IN  /\ nsCalls' = Append(nsCalls,
                            [cwd |-> cwd, path |-> p, statOk |-> statOk, res |-> res])
            /\ IF ~res.ok THEN Finish(res.err)
               ELSE IF next = "done" THEN Finish("Ok")
               ELSE pc' = next /\ UNCHANGED <<op, result>>

NsNameFirst ==
    /\ op = "name" /\ pc = "n_first"
    /\ NsNameStep("n_second")
    /\ UNCHANGED <<envV, startV, stopV, inspV, childV, mountV, legacy>>

\* The second call; the process may have changed its directory meanwhile.
NsNameSecond ==
    /\ op = "name" /\ pc = "n_second"
    /\ NsNameStep("done")
    /\ UNCHANGED <<envV, startV, stopV, inspV, childV, mountV, legacy>>

(***************************************************************************)
(* The operation has returned; the next one starts from fresh locals.      *)
(***************************************************************************)
Return ==
    /\ pc = "done"
    /\ op' = "idle" /\ pc' = "idle" /\ result' = "none"
    /\ child' = "none" /\ busReady' = FALSE
    /\ mounts' = <<>>
    /\ childOps' = {}
    /\ i' = 0
    /\ probes' = 0
    /\ probeOks' = 0
    /\ aliveAt' = -1
    /\ readyAt' = -1
    /\ delays' = <<>>
    /\ slept' = 0
    /\ waitResult' = "none"
    /\ setupErr' = "none"
    /\ j' = 1
    /\ bindCalls' = 0
    /\ installed' = {}
    /\ warned' = FALSE
    /\ phase' = "none"
    /\ existed' = FALSE
    /\ poweroffAccepted' = "none"
    /\ gpolls' = 0
    /\ fpolls' = 0
    /\ stopSlept' = 0
    /\ killCalls' = 0
    /\ killSent' = FALSE
    /\ terminateCalls' = 0
    /\ goneSeen' = FALSE
    /\ goneAfterKill' = FALSE
    /\ busFault' = FALSE
    /\ mountedRead' = <<>>
    /\ getRes' = "none"
    /\ stateRead' = "none"
    /\ cmdlineRead' = <<>>
    /\ status' = <<>>
    /\ exitStatus' = <<>>
    /\ reportedStatus' = <<>>
    /\ mountedAtCall' = <<>>
    /\ isMountedRead' = <<>>
    /\ mkdirCalls' = 0
    /\ mountCalls' = 0
    /\ legacy' = FALSE
    /\ nsCalls' = <<>>
    /\ UNCHANGED <<machine, mounted, composed>>

Program ==
    \/ StartCall \/ Spawn \/ PollChild \/ Probe \/ Sleep \/ WaitExhausted
    \/ SetupConnect \/ SetupMount \/ SetupReturn
    \/ StopCall \/ TConnect \/ TGetMachine \/ TName \/ Poweroff
    \/ WaitOpen \/ WaitPoll \/ WaitGivesUp \/ Kill \/ Terminate \/ TerminateAgain
    \/ InspectCall \/ IMounted \/ IConnect \/ IGetMachine \/ IState \/ IBooted
    \/ MountLayersCall \/ MLayersIsMounted \/ MLayersMkdir \/ MLayersMount
    \/ NsNameCall \/ NsNameFirst \/ NsNameSecond
    \/ Return

Host == ChildExits \/ BusComesUp \/ MachineVanishes

Next == Program \/ Host

Spec == Init /\ [][Next]_vars

\* The program is one blocking thread: a step that it can take, it takes.
FairSpec == Spec /\ WF_vars(Program)

(***************************************************************************)
(* Properties                                                              *)
(***************************************************************************)
StartDone   == op = "start" /\ pc = "done"
StopDone    == op = "stop" /\ pc = "done"
InspectDone == op = "inspect" /\ pc = "done"

\* C1: spawn_container returns success only if, on some attempt of the
\* readiness wait, the child was polled as still running and the bus probe
\* of that attempt then succeeded; never when every probe failed.
C1_SuccessOnlyAfterReadyProbe ==
    (StartDone /\ result = "Ok") =>
        /\ readyAt \in 0..(Retry - 1)
        /\ aliveAt = readyAt
        /\ probeOks >= 1
        /\ waitResult = "Ok"

\* C1 witness: start succeeded after some probes had failed.
C1_Witness ==
    StartDone /\ result = "Ok" /\ readyAt >= 1 /\ probes > probeOks

\* C2: the steps of spawn_container happen in the order spawn, readiness
\* wait, bind-mount setup: setup_bind_mounts is entered and bind mounts are
\* requested only after the wait returned success, the wait probes only a
\* spawned child, and a failed wait leaves no bind-mount call at all.
C2_SpawnWaitThenBindMounts ==
    /\ (pc \in {"setup_connect", "mount", "setup_return"} \/ bindCalls > 0
            \/ installed # {} \/ setupErr # "none")
         => (waitResult = "Ok" /\ probeOks >= 1)
    /\ (probes > 0 \/ waitResult # "none") => "spawn" \in childOps
    /\ waitResult \in {"NspawnExitedEarly", "ReadinessTimeout", "IoError"}
         => (bindCalls = 0 /\ installed = {} /\ setupErr = "none" /\ pc = "done")

\* C2 witness: a bind mount was requested after the wait had succeeded.
C2_Witness ==
    StartDone /\ waitResult = "Ok" /\ bindCalls > 0 /\ probes > 1

\* C3: when start fails with ReadinessTimeout, the spawned nspawn child has
\* been signaled before start returns.
C3_ChildSignaledOnTimeout ==
    (StartDone /\ result = "ReadinessTimeout") => "kill" \in childOps

ExpectedDelays == <<0, 1, 2, 2, 2, 2, 2, 3, 3, 3>>

\* C4: with a probe that always fails and a child that never exits, the
\* readiness wait makes exactly 10 probes, sleeps 0, 1, 2, 2, 2, 2, 2, 3, 3, 3
\* seconds after them (20 in total) and fails with ReadinessTimeout; there is
\* never an 11th probe nor more than 20 seconds of sleep.
C4_TenProbesTwentySeconds ==
    /\ probes <= 10
    /\ slept <= 20
    /\ Len(delays) <= probes
    /\ delays = SubSeq(ExpectedDelays, 1, Len(delays))
    /\ (StartDone /\ "spawn" \in childOps /\ probeOks = 0
            /\ child = "running" /\ result # "IoError")
         => /\ result = "ReadinessTimeout"
            /\ probes = 10
            /\ delays = ExpectedDelays
            /\ slept = 20

\* C4 witness: the wait ran out with the child still running.
C4_Witness ==
    StartDone /\ result = "ReadinessTimeout" /\ child = "running" /\ probes = 10

\* C5: when one of the requested mounts cannot be canonicalized and another
\* is valid, the valid mount is installed when start returns, wherever the
\* failing mount stands in the list.
C5_ValidMountInstalled ==
    (/\ StartDone /\ result = "Ok" /\ setupErr # "connect"
     /\ \E a \in DOMAIN mounts : mounts[a] = "canon"
     /\ \E b \in DOMAIN mounts : mounts[b] = "ok")
        => \A b \in DOMAIN mounts : mounts[b] = "ok" => b \in installed

\* C6: once the readiness wait has succeeded, a failure of any step of the
\* bind-mount setup does not fail start: spawn_container returns success and
\* the container is neither killed nor terminated.
C6_BindMountFailureNotFatal ==
    (StartDone /\ waitResult = "Ok") =>
        /\ result = "Ok"
        /\ warned = (setupErr # "none")
        /\ "kill" \notin childOps
        /\ killCalls = 0
        /\ terminateCalls = 0

\* C6 witness: start returned after the BindMountMachine call had failed.
C6_Witness ==
    StartDone /\ waitResult = "Ok" /\ setupErr = "bind" /\ bindCalls > 0

\* C7: stop returns success only if a poll established that the machine
\* object no longer exists (a poll that fails with another bus error does
\* not count as disappearance).
C7_SuccessOnlyWhenSeenGone ==
    (StopDone /\ result = "Ok") => goneSeen

\* C8: after an accepted poweroff and 10 graceful polls that found the
\* machine, stop returns success whenever the machine disappears after the
\* KILL was sent and before the forced polls are used up (no bus call failing
\* for another reason than the absence of the machine).
C8_SuccessWhenGoneAfterKill ==
    (/\ StopDone /\ poweroffAccepted = "yes" /\ gpolls = PowerOffPolls
     /\ killSent /\ goneAfterKill /\ ~busFault)
        => result = "Ok"

\* The bounds of the two polling phases of stop.
StopBudget ==
    /\ gpolls <= 10
    /\ fpolls <= 10
    /\ stopSlept <= 20

\* C9 as stated: stop on an existing machine makes at most 10 graceful and
\* at most 10 forced polls (at most 20 sleeps) and then has returned success
\* or failed with TerminationFailed.
C9_OkOrTerminationFailed ==
    /\ StopBudget
    /\ (StopDone /\ existed) => result \in {"Ok", "TerminationFailed"}

\* C9 amended: stop on an existing machine always terminates, with at most
\* 10 graceful and at most 10 forced polls (at most 20 sleeps), and then has
\* returned success, failed with TerminationFailed, or returned the error of
\* a failed name, kill or terminate call on the machine object.
C9_TerminatesWithinBudget ==
    /\ [](/\ StopBudget
          /\ (StopDone /\ existed) =>
                result \in {"Ok", "TerminationFailed", "BusError", "UnknownObject"})
    /\ ((op = "stop" /\ existed) ~> StopDone)

\* C9 witness: both polling phases were used up and stop failed.
C9_Witness ==
    StopDone /\ existed /\ gpolls = 10 /\ fpolls = 10 /\ stopSlept = 20
        /\ result = "TerminationFailed"

\* C10: when GetMachine answers NoSuchMachine, inspect_instance returns a
\* record with started = false, running = false, booted = None and mounted
\* as in the mount table; when GetMachine fails with another error,
\* inspect_instance returns that error and no record.
C10_NoSuchMachineIsNotAnError ==
    /\ (InspectDone /\ getRes = "NoSuchMachine") =>
          /\ result = "Ok"
          /\ status = << [started |-> FALSE, running |-> FALSE,
                          mounted |-> mounted, booted |-> "None"] >>
    /\ (InspectDone /\ getRes \in {"AccessDenied", "BusError"}) =>
          /\ result = getRes
          /\ status = <<>>

\* C10 witness: inspect of a mounted instance without a machine object.
C10_Witness ==
    InspectDone /\ getRes = "NoSuchMachine" /\ mounted /\ status # <<>>

\* C11 as stated: every record returned by inspect_instance satisfies
\* running => started and started => mounted.
C11_RunningStartedMounted ==
    (InspectDone /\ status # <<>>) =>
        /\ status[1].running => status[1].started
        /\ status[1].started => status[1].mounted

\* C11 amended: every record returned by inspect_instance satisfies
\* running => started, and its mounted field is the state of the mount
\* table, read independently of the machine daemon: started => mounted
\* holds exactly when the mount table shows the overlay.
C11_RunningStartedOnly ==
    (InspectDone /\ status # <<>>) =>
        /\ status[1].running => status[1].started
        /\ status[1].mounted = mounted
        /\ status[1].started = (getRes = "Ok")
        /\ (status[1].started => status[1].mounted) = (getRes = "Ok" => mounted)

\* C11 witness: a running machine whose overlay is not in the mount table.
C11_Witness ==
    InspectDone /\ status # <<>> /\ status[1].started /\ status[1].running
        /\ ~status[1].mounted

\* C12: inspect of an instance whose machine object exists but whose leader
\* has no cmdline file reports booted = false and does not fail.
C12_AbsentCmdlineNotBooted ==
    (InspectDone /\ cmdlineRead # <<>> /\ ~cmdlineRead[1].exists) =>
        /\ result = "Ok"
        /\ status # <<>>
        /\ status[1].booted = "Some(false)"

\* C18 as stated: KILL and terminate are issued only when the poweroff
\* command could not be delivered or when all 10 graceful polls found the
\* machine; a graceful poll that finds it gone ends stop with success and
\* without KILL or terminate.
C18_KillOnlyAfterFailedPoweroff ==
    /\ (killCalls > 0 \/ terminateCalls > 0)
         => (poweroffAccepted = "no" \/ (poweroffAccepted = "yes" /\ gpolls = 10))
    /\ (goneSeen /\ fpolls = 0)
         => (StopDone /\ result = "Ok" /\ killCalls = 0 /\ terminateCalls = 0)

\* C18 amended: KILL and terminate are issued only when the poweroff command
\* could not be delivered, when wait_for_poweroff failed before its first
\* poll (machine name or manager proxy not available), or when all 10
\* graceful polls found the machine; a graceful poll that finds it gone ends
\* stop with success and without KILL or terminate.
C18_KillOnlyAfterFailedWait ==
    /\ (killCalls > 0 \/ terminateCalls > 0)
         => \/ poweroffAccepted = "no" /\ gpolls = 0
            \/ poweroffAccepted = "yes" /\ gpolls = 10
            \/ poweroffAccepted = "yes" /\ gpolls = 0 /\ busFault
    /\ terminateCalls > 0 => killSent
    /\ (goneSeen /\ fpolls = 0)
         => (StopDone /\ result = "Ok" /\ killCalls = 0 /\ terminateCalls = 0)

\* C18 witness: the kill after 10 graceful polls that found the machine.
C18_Witness ==
    op = "stop" /\ poweroffAccepted = "yes" /\ gpolls = 10 /\ killSent
        /\ terminateCalls > 0 /\ ~busFault

RECURSIVE TrimTail(_)
\* A path without its trailing separators and trailing "." components.
TrimTail(p) ==
    IF p = <<>> THEN p
    ELSE IF p[Len(p)] = "/" THEN TrimTail(SubSeq(p, 1, Len(p) - 1))
    ELSE IF p[Len(p)] = "." /\ (Len(p) = 1 \/ p[Len(p) - 1] = "/")
           THEN TrimTail(SubSeq(p, 1, Len(p) - 1))
    ELSE p

\* The final component of a path: what follows the last separator once the
\* tail is trimmed; ".." is not a name.
Basename(p) ==
    LET t == TrimTail(p)
        cut == IF \E k \in 1..Len(t) : t[k] = "/"
                 THEN CHOOSE k \in 1..Len(t) :
                        t[k] = "/" /\ \A m \in (k + 1)..Len(t) : t[m] # "/"
                 ELSE 0
        b == SubSeq(t, cut + 1, Len(t))
    IN  IF b = <<".", ".">> THEN <<>> ELSE b

\* C19: for every command line `<path> NUL ...` of process 1, is_booted
\* reports true if and only if the final component of the bytes before the
\* first NUL is exactly "systemd" or "init".
C19_BootedIffSystemdOrInit ==
    (/\ InspectDone /\ cmdlineRead # <<>> /\ cmdlineRead[1].exists
     /\ \E k \in 1..Len(cmdlineRead[1].bytes) : cmdlineRead[1].bytes[k] = NUL)
        => LET f == cmdlineRead[1].bytes
               first == CHOOSE k \in 1..Len(f) :
                          f[k] = NUL /\ \A m \in 1..(k - 1) : f[m] # NUL
               exe == Basename(SubSeq(f, 1, first - 1))
           IN  /\ result = "Ok"
               /\ status # <<>>
               /\ status[1].booted \in {"Some(true)", "Some(false)"}
               /\ (status[1].booted = "Some(true)")
                    = (exe = <<"s", "y", "s", "t", "e", "m", "d">>
                         \/ exe = <<"i", "n", "i", "t">>)

\* C19 witness: process 1 is "systemd-n...", which is not booted.
C19_Witness ==
    /\ InspectDone /\ status # <<>> /\ cmdlineRead # <<>>
    /\ cmdlineRead[1].bytes = <<"s", "y", "s", "t", "e", "m", "d", "-", "n", NUL>>
    /\ status[1].booted = "Some(false)"

\* C20: terminate_container_by_name for a name without a machine object
\* returns an error and issues no poweroff command, no KILL and no terminate.
C20_StopOfAbsentMachineFails ==
    (StopDone /\ ~existed) =>
        /\ result \in {"NoSuchMachine", "AccessDenied", "BusError"}
        /\ poweroffAccepted = "none"
        /\ gpolls = 0 /\ fpolls = 0
        /\ killCalls = 0
        /\ terminateCalls = 0

\* C20 witness: stop was answered NoSuchMachine.
C20_Witness ==
    StopDone /\ ~existed /\ result = "NoSuchMachine" /\ machine = "absent"

MountDone == op = "mount" /\ pc = "done"

\* C16: mount_layers called while the overlay is mounted at the target makes
\* no mount call, creates no directory and leaves the mount table as it was;
\* it returns Ok once is_mounted has answered.
C16_MountIsIdempotent ==
    (op = "mount" /\ mountedAtCall = <<TRUE>>) =>
        /\ mountCalls = 0
        /\ mkdirCalls = 0
        /\ mounted
        /\ (MountDone /\ isMountedRead # <<>>) => result = "Ok"

\* C16 witness: the second mount_layers after one that mounted the overlay.
C16_Witness ==
    MountDone /\ composed /\ mountedAtCall = <<TRUE>> /\ isMountedRead = <<TRUE>>
        /\ result = "Ok"

\* C17: wait_for_container polls the child before it probes the bus: when
\* the poll of attempt i finds the child exited, the wait returns
\* NspawnExitedEarly with the child's exit status, having probed the bus
\* only in the i earlier attempts, and nothing follows; a probe is only
\* made in an attempt whose poll found the child running.
C17_ExitedChildAbortsBeforeProbe ==
    /\ (StartDone /\ waitResult = "NspawnExitedEarly") =>
          /\ result = "NspawnExitedEarly"
          /\ child = "exited"
          /\ exitStatus # <<>> /\ reportedStatus = exitStatus
          /\ probes = i /\ Len(delays) = i
          /\ probeOks = 0 /\ readyAt = -1
          /\ bindCalls = 0 /\ setupErr = "none"
    /\ (op = "start" /\ pc = "probe") => aliveAt = i
    /\ (op = "start" /\ pc \in {"poll", "probe"}) => probes = i

\* C17 witness: the child was found exited on a later attempt while the bus
\* of the machine name was answering.
C17_Witness ==
    StartDone /\ waitResult = "NspawnExitedEarly" /\ busReady /\ i >= 1
        /\ reportedStatus = <<"exit status: 1">>

RECURSIVE WeightedSum(_, _)
\* The sum of w * byte over the bytes, w counting down from `w` to 1.
WeightedSum(bytes, w) ==
    IF bytes = <<>> THEN 0
    ELSE w * Byte(Head(bytes)) + WeightedSum(Tail(bytes), w - 1)

RECURSIVE PlainSum(_)
PlainSum(bytes) ==
    IF bytes = <<>> THEN 0 ELSE Byte(Head(bytes)) + PlainSum(Tail(bytes))

\* Adler-32 by its definition: A = 1 + sum of the bytes, B = n + sum of
\* (n - k + 1) * byte k, both modulo 65521, B in the high half.
Adler32OfBytes(bytes) ==
    ((Len(bytes) + WeightedSum(bytes, Len(bytes))) % 65521) * 65536
        + ((1 + PlainSum(bytes)) % 65521)

RECURSIVE HexValue(_)
\* The number written by a sequence of lowercase hex digits (-1: not hex).
HexValue(h) ==
    IF h = <<>> THEN 0
    ELSE LET c == h[Len(h)]
             front == HexValue(SubSeq(h, 1, Len(h) - 1))
         IN  IF front < 0 \/ ~(\E d \in 1..16 : HexDigits[d] = c) THEN -1
             ELSE front * 16 + (CHOOSE d \in 1..16 : HexDigits[d] = c) - 1

\* The position of the last '-' of a name (0: none).
LastDash(name) ==
    IF \E k \in 1..Len(name) : name[k] = "-"
      THEN CHOOSE k \in 1..Len(name) :
             name[k] = "-" /\ \A m \in (k + 1)..Len(name) : name[m] # "-"
      ELSE 0

NamePart(name) == SubSeq(name, 1, LastDash(name) - 1)
HashPart(name) == SubSeq(name, LastDash(name) + 1, Len(name))

\* A relative path of one component: the name of an instance directory.
IsInstanceName(p) == p # <<>> /\ \A k \in 1..Len(p) : p[k] # "/"

\* The calls of the current run that returned a name.
NamedCalls == {k \in 1..Len(nsCalls) : nsCalls[k].res.ok}

C14_DistinctInstancesDistinctNames ==
    (/\ op = "name" /\ NamedCalls = {1, 2}
     /\ nsCalls[1].cwd = nsCalls[2].cwd
     /\ IsInstanceName(nsCalls[1].path) /\ IsInstanceName(nsCalls[2].path)
     /\ nsCalls[1].path # nsCalls[2].path)
        => nsCalls[1].res.name # nsCalls[2].res.name

\* C14 witness: instances a and a-1b of one legacy workspace were named.
C14_Witness ==
    /\ op = "name" /\ legacy /\ NamedCalls = {1, 2}
    /\ nsCalls[1].cwd = nsCalls[2].cwd
    /\ nsCalls[1].path = <<"a">>
    /\ nsCalls[2].path = <<"a", "-", "1", "b">>

\* C15 as stated: two calls with the same path argument and the same layout
\* return the same result, whatever the working directory at each call.
C15_NameIndependentOfCwd ==
    (op = "name" /\ Len(nsCalls) = 2 /\ nsCalls[1].path = nsCalls[2].path)
        => nsCalls[1].res = nsCalls[2].res

\* C15 amended: two calls with the same path argument and the same layout
\* that both return a name return the same name when the working directory
\* is the same at both calls or, for the current layout, when the path
\* argument is absolute.
C15_NameDependsOnCwd ==
    (/\ op = "name" /\ NamedCalls = {1, 2}
     /\ nsCalls[1].path = nsCalls[2].path
     /\ \/ nsCalls[1].cwd = nsCalls[2].cwd
        \/ ~legacy /\ nsCalls[1].path[1] = "/")
        => nsCalls[1].res.name = nsCalls[2].res.name

\* C15 witness: the same absolute path named from two directories under the
\* current layout, and the names agree.
C15_Witness ==
    /\ op = "name" /\ ~legacy /\ NamedCalls = {1, 2}
    /\ nsCalls[1].path = <<"/", "t", "m", "p", "/">>
    /\ nsCalls[2].path = <<"/", "t", "m", "p", "/">>
    /\ nsCalls[1].cwd = <<TMP>> /\ nsCalls[2].cwd = <<WDIR>>

====
